---- MODULE Spec2Model ----
(***************************************************************************)
(* Model of graphqlRequest (server/utils/shopify-client.js): the resilient *)
(* GraphQL client with its retry loop, response classification, cost-based *)
(* throttle estimator and cooperative cancellation hook.                   *)
(*                                                                         *)
(* One call is a sequence of synchronous runs separated by its two kinds   *)
(* of await: the transport request and the backoff timer.  Each action     *)
(* below is one such run, from the resumption of the call up to the next   *)
(* await (or to the call's return/throw).                                  *)
(***************************************************************************)
EXTENDS Integers, Sequences, FiniteSets, TLC

(***************************************************************************)
(* Bounds of the explored input space.                                     *)
(***************************************************************************)
MaxErrs == 2        \* longest `errors` list carried by a response body
MaxTokenLen == 2    \* longest raw token, in characters
MaxCost == 3        \* largest requestedQueryCost / currentlyAvailable
MaxRate == 2        \* largest restoreRate
MaxPages == 2       \* product pages the remote API serves for one tag
MaxPageProducts == 2 \* products on one page
MaxMediaPages == 1  \* media pages of a product beyond the first

(***************************************************************************)
(* Program constants.                                                      *)
(***************************************************************************)
MAX_ATTEMPTS == 10
BASE_WAIT_MS == 1000
DEFAULT_COST == 50
BATCH_SIZE == 50

(***************************************************************************)
(* JavaScript values.  A value that may be undefined or null is a tagged   *)
(* record; strings are sequences (of characters for tokens and headers, of *)
(* words for messages).                                                    *)
(***************************************************************************)
Undefined == [t |-> "undefined"]
Null == [t |-> "null"]
NaN == [t |-> "NaN"]
Num(n) == [t |-> "number", n |-> n]
Str(s) == [t |-> "string", s |-> s]
Arr(a) == [t |-> "array", a |-> a]

\* JavaScript truthiness (the operand of `!`, `||`, `if`).
Truthy(v) ==
    /\ v.t \notin {"undefined", "null", "NaN"}
    /\ (v.t = "number" => v.n # 0)
    /\ (v.t = "string" => v.s # <<>>)

\* All sequences over S of length at most n.
SeqsUpTo(S, n) == UNION {[1..k -> S] : k \in 0..n}

(***************************************************************************)
(* Strings.                                                                *)
(***************************************************************************)
\* The characters of a raw token: a letter, whitespace, a quote.
TokenChars == {"a", " ", "'"}

\* String.prototype.toLowerCase on one word of a message.
LowerWord(w) ==
    CASE w = "Throttled" -> "throttled"
      [] w = "THROTTLED" -> "throttled"
      [] w = "Request" -> "request"
      [] w = "Access" -> "access"
      [] w = "Rate" -> "rate"
      [] OTHER -> w

ToLowerCase(s) == [i \in 1..Len(s) |-> LowerWord(s[i])]

\* String.prototype.includes for a one-word needle.
Includes(s, w) == \E i \in 1..Len(s) : s[i] = w

\* token.toString().replace(/['"]/g, '')
RECURSIVE StripQuotes(_)
StripQuotes(s) ==
    IF s = <<>> THEN <<>>
    ELSE IF Head(s) \in {"'", "\""} THEN StripQuotes(Tail(s))
    ELSE <<Head(s)>> \o StripQuotes(Tail(s))

\* String.prototype.trim
RECURSIVE TrimLeft(_)
TrimLeft(s) ==
    IF s # <<>> /\ Head(s) = " " THEN TrimLeft(Tail(s)) ELSE s

RECURSIVE TrimRight(_)
TrimRight(s) ==
    IF s # <<>> /\ s[Len(s)] = " " THEN TrimRight(SubSeq(s, 1, Len(s) - 1)) ELSE s

Trim(s) == TrimRight(TrimLeft(s))

\* const accessToken = token.toString().replace(/['"]/g, '').trim();
SanitizeToken(token) == Trim(StripQuotes(token.s))

\* errors.map(e => e.message).join(' | ')
RECURSIVE JoinMessages(_)
JoinMessages(errs) ==
    IF errs = <<>> THEN <<>>
    ELSE IF Len(errs) = 1 THEN errs[1].message
    ELSE errs[1].message \o <<"|">> \o JoinMessages(Tail(errs))

\* parseInt(s, 10): optional sign, then the longest prefix of digits.
Digits == {"0", "1", "2", "3"}
DigitVal(c) == CASE c = "0" -> 0 [] c = "1" -> 1 [] c = "2" -> 2 [] c = "3" -> 3

RECURSIVE ParseDigits(_, _, _)
ParseDigits(s, acc, seen) ==
    IF s # <<>> /\ Head(s) \in Digits
    THEN ParseDigits(Tail(s), 10 * acc + DigitVal(Head(s)), TRUE)
    ELSE IF seen THEN Num(acc) ELSE NaN

ParseInt(s) ==
    IF s # <<>> /\ Head(s) = "-"
    THEN LET r == ParseDigits(Tail(s), 0, FALSE)
         IN IF r = NaN THEN NaN ELSE Num(0 - r.n)
    ELSE ParseDigits(s, 0, FALSE)

(***************************************************************************)
(* Errors.  Every thrown value is an Error object: a message, and for      *)
(* transport errors a network code and the HTTP response it carries.       *)
(***************************************************************************)
NoResponse == [code |-> 0, retryAfter |-> Undefined]

\* new Error(msg)
MkError(msg) == [message |-> msg, code |-> "none", response |-> NoResponse]

MissingTokenError == MkError(<<"graphqlRequest:", "Missing", "token">>)
EmptyBodyError == MkError(<<"TRANSIENT_EMPTY_BODY">>)
MissingDataError == MkError(<<"TRANSIENT_MISSING_DATA">>)
CancelSignal == MkError(<<"IMPORT_CANCELLED">>)
ExhaustedError ==
    MkError(<<"GraphQL", "request", "exhausted", "max", "retries",
              ToString(MAX_ATTEMPTS)>>)
\* thrown by the platform library's client constructor for a session without
\* an access token
LibraryTokenError ==
    MkError(<<"Missing", "access", "token", "when", "creating", "GraphQL", "client">>)
(***************************************************************************)
(* Inputs: tokens, variable mappings, responses and transport errors.      *)
(***************************************************************************)
Tokens == {Undefined} \cup {Str(s) : s \in SeqsUpTo(TokenChars, MaxTokenLen)}

\* The caller's variable mapping: any subset of these entries.
VariableValue(k) == IF k = "checkCancelled" THEN "function" ELSE "sale"
VariableMaps ==
    {[k \in K |-> VariableValue(k)] : K \in SUBSET {"tag", "checkCancelled"}}

\* Entries of a response body's `errors` list.
ErrorObjs ==
    { [message |-> <<"Throttled">>, code |-> "none"],
      [message |-> <<"Rate", "limit">>, code |-> "THROTTLED"],
      [message |-> <<"Access", "denied">>, code |-> "ACCESS_DENIED"],
      [message |-> <<"TRANSIENT_EMPTY_BODY">>, code |-> "none"],
      [message |-> <<"TRANSIENT_MISSING_DATA">>, code |-> "none"],
      [message |-> <<"IMPORT_CANCELLED">>, code |-> "none"] }

ErrorLists == {Undefined} \cup {Arr(l) : l \in SeqsUpTo(ErrorObjs, MaxErrs)}

DataValues == {Undefined, Null, [t |-> "object", id |-> "D1"]}

ThrottleStatuses ==
    {Undefined} \cup
    {[t |-> "object", currentlyAvailable |-> a, restoreRate |-> r] :
        a \in 0..MaxCost, r \in 0..MaxRate}

\* body.extensions.cost
Costs ==
    {Undefined} \cup
    {[t |-> "object", requestedQueryCost |-> q, throttleStatus |-> ts] :
        q \in {Undefined} \cup {Num(n) : n \in 0..MaxCost},
        ts \in ThrottleStatuses}

Payload(d, e, c) == [t |-> "object", data |-> d, errors |-> e, cost |-> c]

ThrottledOnly == Arr(<<[message |-> <<"Throttled">>, code |-> "none"]>>)

\* Payloads: every data/errors combination without cost metadata; every
\* cost record on a throttled payload; cost metadata next to plain data.
Payloads ==
    {Payload(d, e, Undefined) : d \in DataValues, e \in ErrorLists}
    \cup {Payload(Undefined, ThrottledOnly, c) : c \in Costs}
    \cup {Payload(d, Undefined, c) :
            d \in DataValues,
            c \in {[t |-> "object", requestedQueryCost |-> Num(1),
                    throttleStatus |-> [t |-> "object", currentlyAvailable |-> 0,
                                        restoreRate |-> 1]]}}

\* What client.request resolves with: the payload nested under `body`, the
\* payload on the root of the response, or a missing / empty body.
NestedResponse(b) ==
    [body |-> b, data |-> Undefined, errors |-> Undefined, cost |-> Undefined]
RootResponse(p) ==
    [body |-> Undefined, data |-> p.data, errors |-> p.errors, cost |-> p.cost]

Responses ==
    {NestedResponse(b) : b \in {Undefined, Null, Arr(<<>>)} \cup Payloads}
    \cup {RootResponse(p) : p \in Payloads}

\* error.response.headers.get('Retry-After')
RetryAfterValues ==
    {Undefined, Str(<<"0">>), Str(<<"3">>), Str(<<"-", "1">>), Str(<<"x">>)}

\* What client.request rejects with.
TransportErrors ==
    {[message |-> <<"socket", "hang", "up">>, code |-> c, response |-> NoResponse] :
        c \in {"ECONNRESET", "ETIMEDOUT", "EPIPE", "ENOTFOUND"}}
    \cup {[message |-> <<"Too", "Many", "Requests">>, code |-> "none",
           response |-> [code |-> 429, retryAfter |-> h]] : h \in RetryAfterValues}
    \cup {[message |-> <<"Request", "Throttled">>, code |-> c, response |-> NoResponse] :
            c \in {"none", "ETIMEDOUT"}}
    \cup {[message |-> <<"Unauthorized">>, code |-> "none",
           response |-> [code |-> 401, retryAfter |-> Undefined]]}
    \cup {CancelSignal}
(***************************************************************************)
(* The try block: normalization and classification of a response.          *)
(***************************************************************************)
\* let body = response.body;
\* if (!body && (response.data || response.errors)) body = response;
NormalizeBody(response) ==
    IF ~Truthy(response.body) /\ (Truthy(response.data) \/ Truthy(response.errors))
    THEN Payload(response.data, response.errors, response.cost)
    ELSE response.body

\* !body || (Array.isArray(body) && body.length === 0)
IsEmptyBody(body) ==
    ~Truthy(body) \/ (body.t = "array" /\ body.a = <<>>)

\* e.message?.toLowerCase().includes('throttled') || e.extensions?.code === 'THROTTLED'
IsThrottledError(e) ==
    Includes(ToLowerCase(e.message), "throttled") \/ e.code = "THROTTLED"

\* Mutant of IsThrottled: every error has to signal throttling.
IsThrottledEvery(errors) ==
    errors.t = "array" /\ \A i \in 1..Len(errors.a) : IsThrottledError(errors.a[i])

\* errors?.some(...)
IsThrottled(errors) ==
    errors.t = "array" /\ \E i \in 1..Len(errors.a) : IsThrottledError(errors.a[i])

\* Mutant of CeilDiv: the quotient is rounded down (Math.floor).
FloorDiv(a, b) == a \div b

\* Math.ceil(a / b) for b > 0
CeilDiv(a, b) == 0 - ((0 - a) \div b)

\* Mutant of CostNeeded: the remembered cost is not consulted.
CostNeededForgetful(requestedQueryCost, last) ==
    IF Truthy(requestedQueryCost) THEN requestedQueryCost.n ELSE DEFAULT_COST

\* requestedQueryCost || lastRequestedCost || 50
CostNeeded(requestedQueryCost, last) ==
    IF Truthy(requestedQueryCost) THEN requestedQueryCost.n
    ELSE IF last # 0 THEN last
    ELSE DEFAULT_COST

\* Mutant of SoftThrottle: the fallback uses the catch block's exponent.
SoftThrottleLateFallback(cost, attempt, last) ==
    LET fallback == BASE_WAIT_MS * 2^attempt IN
    IF Truthy(cost) /\ Truthy(cost.throttleStatus)
    THEN LET costNeeded == CostNeeded(cost.requestedQueryCost, last)
             deficit == costNeeded - cost.throttleStatus.currentlyAvailable
             restoreRate == cost.throttleStatus.restoreRate
         IN [waitTime |-> IF deficit > 0 /\ restoreRate > 0
                          THEN Num(CeilDiv(deficit, restoreRate) * 1000 + 100)
                          ELSE Num(fallback),
             last |-> costNeeded]
    ELSE [waitTime |-> Num(fallback), last |-> last]

\* The soft-throttle branch up to its first cancellation check: the wait
\* time and the cost remembered for the rest of the call.
SoftThrottle(cost, attempt, last) ==
    LET fallback == BASE_WAIT_MS * 2^(attempt - 1) IN
    IF Truthy(cost) /\ Truthy(cost.throttleStatus)
    THEN LET costNeeded == CostNeeded(cost.requestedQueryCost, last)
             deficit == costNeeded - cost.throttleStatus.currentlyAvailable
             restoreRate == cost.throttleStatus.restoreRate
         IN [waitTime |-> IF deficit > 0 /\ restoreRate > 0
                          THEN Num(CeilDiv(deficit, restoreRate) * 1000 + 100)
                          ELSE Num(fallback),
             last |-> costNeeded]
    ELSE [waitTime |-> Num(fallback), last |-> last]

\* The try block after `await client.request(...)`: return, throw into the
\* catch block, or enter the soft-throttle wait.
TryBlock(response, attempt, last) ==
    LET body == NormalizeBody(response) IN
    IF IsEmptyBody(body) THEN [k |-> "throw", error |-> EmptyBodyError]
    ELSE IF IsThrottled(body.errors)
    THEN LET st == SoftThrottle(body.cost, attempt, last)
         IN [k |-> "throttle", waitTime |-> st.waitTime, last |-> st.last]
    ELSE IF Truthy(body.errors)
    THEN [k |-> "throw", error |-> MkError(JoinMessages(body.errors.a))]
    ELSE IF body.data # Undefined
    THEN [k |-> "return", value |-> body.data]
    ELSE [k |-> "throw", error |-> MissingDataError]

(***************************************************************************)
(* The catch block.                                                        *)
(***************************************************************************)
IsCancellation(error) == error.message = <<"IMPORT_CANCELLED">>

\* Mutant of IsTransient: the missing-data sentinel is not recognized.
IsTransientEmptyOnly(error) == error.message = <<"TRANSIENT_EMPTY_BODY">>

IsTransient(error) ==
    \/ error.message = <<"TRANSIENT_EMPTY_BODY">>
    \/ error.message = <<"TRANSIENT_MISSING_DATA">>

IsNetworkThrottled(error) ==
    error.response.code = 429 \/ Includes(ToLowerCase(error.message), "throttled")

\* Mutant of IsNetworkError: the broken-pipe code is not recognized.
IsNetworkErrorWithoutPipe(error) == error.code \in {"ECONNRESET", "ETIMEDOUT"}

\* Mutant of IsNetworkError: every error code counts as a network error.
IsNetworkErrorAnyCode(error) == error.code # "none"

IsNetworkError(error) == error.code \in {"ECONNRESET", "ETIMEDOUT", "EPIPE"}

\* (isTransient || isNetworkThrottled || isNetworkError) && attempt < MAX_ATTEMPTS
ShouldRetry(error, attempt) ==
    /\ IsTransient(error) \/ IsNetworkThrottled(error) \/ IsNetworkError(error)
    /\ attempt < MAX_ATTEMPTS

\* Math.max(a, b)
MathMax(a, b) ==
    IF a = NaN \/ b = NaN THEN NaN
    ELSE IF a.n >= b.n THEN a ELSE b

\* Mutant of BackoffWait: the exponent of the backoff is attempt - 1.
BackoffWaitFromOne(error, attempt) ==
    LET exponential == Num(BASE_WAIT_MS * 2^(attempt - 1))
        retryAfter == error.response.retryAfter
        parsed == ParseInt(retryAfter.s)
        honoured == IF Truthy(retryAfter)
                    THEN IF parsed = NaN THEN NaN ELSE Num(parsed.n * 1000 + 500)
                    ELSE exponential
    IN IF IsNetworkThrottled(error) THEN MathMax(honoured, Num(2000))
       ELSE exponential

\* The wait chosen by the catch block for a retryable error.
BackoffWait(error, attempt) ==
    LET exponential == Num(BASE_WAIT_MS * 2^attempt)
        retryAfter == error.response.retryAfter
        parsed == ParseInt(retryAfter.s)
        honoured == IF Truthy(retryAfter)
                    THEN IF parsed = NaN THEN NaN ELSE Num(parsed.n * 1000 + 500)
                    ELSE exponential
    IN IF IsNetworkThrottled(error) THEN MathMax(honoured, Num(2000))
       ELSE exponential

\* The catch block up to its first cancellation check: rethrow, or wait.
CatchBlock(error, attempt) ==
    IF IsCancellation(error) THEN [k |-> "rethrow", error |-> error]
    ELSE IF ShouldRetry(error, attempt)
    THEN [k |-> "retry", waitTime |-> BackoffWait(error, attempt)]
    ELSE [k |-> "rethrow", error |-> error]

(***************************************************************************)
(* The cancellation hook.                                                  *)
(***************************************************************************)
\* Mutant of HasPredicate: the hook is never found.
HasPredicateNever(vs) == FALSE

\* variables?.checkCancelled
HasPredicate(vs) == "checkCancelled" \in DOMAIN vs

\* Mutant of CheckThrows: what the predicate throws is swallowed.
CheckThrowsSwallowed(vs, isCancelled) == FALSE

\* if (variables?.checkCancelled) variables.checkCancelled();
\* TRUE when the statement throws the cancellation signal.
CheckThrows(vs, isCancelled) == HasPredicate(vs) /\ isCancelled

\* Mutant of RequestOptions: the transport keeps a retry of its own.
RequestOptionsWithRetry(vs) == [variables |-> vs, retries |-> 1]

\* The options handed to client.request.
RequestOptions(vs) == [variables |-> vs, retries |-> 0]
(***************************************************************************)
(* State of one graphqlRequest call and of its environment.                *)
(***************************************************************************)
VARIABLES
    pc,                 \* "idle", "awaiting" (request in flight), "sleeping", "done"
    variables,          \* the caller's variable mapping
    accessToken,        \* the sanitized credential of the session
    attempt,            \* loop index
    lastRequestedCost,  \* cost remembered across throttled attempts
    outcome,            \* what the last transport request resolved/rejected with
    waitTime,           \* delay of the current / last setTimeout
    waitSite,           \* "soft" (try block) or "catch": where the call sleeps
    cancelled,          \* environment: the caller wants the call cancelled
    result,             \* how the call settled
    requests,           \* number of client.request calls issued
    inflight,           \* number of client.request calls not yet settled
    sent,               \* the options handed to client.request, per request
    checks,             \* number of invocations of the cancellation predicate
    waits,              \* number of timers that fired
    observed,           \* the predicate has thrown the cancellation signal
    startedCancelled,   \* the caller had cancelled before the call started
    calls,              \* two concurrent calls: position, wait, result of each
    frames,             \* the cells holding `attempt` and `lastRequestedCost`
    solo,               \* each call replayed alone on its own outcomes
    proc,               \* handleProcess: position, request, locals, limits
    summary,            \* handleProcess: the summary object
    reply,              \* handleProcess: what was sent on `res`
    remote              \* requests handleProcess issued to the remote API

\* The single call studied by Spec, and the two concurrent calls of PairSpec.
callVars == <<pc, variables, accessToken, attempt, lastRequestedCost, outcome,
              waitTime, waitSite, cancelled, result, requests, inflight, sent,
              checks, waits, observed, startedCancelled>>
pairVars == <<calls, frames, solo>>
procVars == <<proc, summary, reply, remote>>
vars == <<callVars, pairVars, procVars>>

Calls == 1..2

NoError == MkError(<<>>)
Pending == [kind |-> "pending", value |-> Undefined, error |-> NoError]
Returned(v) == [kind |-> "returned", value |-> v, error |-> NoError]
Thrown(e) == [kind |-> "thrown", value |-> Undefined, error |-> e]

Init ==
    /\ pc = "idle"
    /\ variables = <<>>
    /\ accessToken = <<>>
    /\ attempt = 0
    /\ lastRequestedCost = 0
    /\ outcome = [kind |-> "none"]
    /\ waitTime = Num(0)
    /\ waitSite = "none"
    /\ cancelled = FALSE
    /\ result = Pending
    /\ requests = 0
    /\ inflight = 0
    /\ sent = <<>>
    /\ checks = 0
    /\ waits = 0
    /\ observed = FALSE
    /\ startedCancelled = FALSE
    /\ calls = [c \in Calls |-> [pc |-> "idle", waitTime |-> Num(0),
                                 waitSite |-> "none", result |-> Pending,
                                 requests |-> 0]]
    /\ frames = [c \in Calls |-> [attempt |-> 0, lastRequestedCost |-> 0]]
    /\ solo = [c \in Calls |-> [pc |-> "idle", waitTime |-> Num(0),
                                waitSite |-> "none", result |-> Pending,
                                requests |-> 0, attempt |-> 0,
                                lastRequestedCost |-> 0]]
    /\ proc = [pc |-> "down", maxProducts |-> 0, maxMediaDeletes |-> 0,
               dryRun |-> FALSE,
               body |-> [tag |-> Undefined, confirmText |-> Undefined,
                         confirmTag |-> Undefined],
               hasNextPage |-> FALSE, pageHasNext |-> FALSE, pageLeft |-> 0,
               pages |-> 0, productsProcessedCount |-> 0,
               mediaDeletedCount |-> 0, medias |-> 0, hasNext |-> FALSE,
               mediaPages |-> 0, i |-> 0, itemError |-> FALSE]
    /\ summary = [productsFound |-> 0, productsProcessed |-> 0,
                  mediaFound |-> 0, mediaDeleted |-> 0, errors |-> 0]
    /\ reply = [status |-> 0, error |-> ""]
    /\ remote = [queries |-> 0, mutations |-> 0]

\* return / throw out of graphqlRequest
Settle(res) ==
    /\ pc' = "done"
    /\ result' = res

\* await client.request(query, { variables, retries: 0 }), at the top of a
\* loop iteration: the previous iteration's block-scoped response, error and
\* waitTime are gone.
IssueRequest(vs) ==
    /\ pc' = "awaiting"
    /\ outcome' = [kind |-> "none"]
    /\ waitTime' = Num(0)
    /\ waitSite' = "none"
    /\ requests' = requests + 1
    /\ inflight' = inflight + 1
    /\ sent' = Append(sent, RequestOptions(vs))
    /\ UNCHANGED result

\* Mutant of InvokePredicate: one invocation is missing.
InvokePredicateOnceLess(n) ==
    /\ checks' = IF HasPredicate(variables) THEN checks + (n - 1) ELSE checks
    /\ observed' = (observed \/ (HasPredicate(variables) /\ cancelled))

\* An invocation of the cancellation predicate: it is counted, and it
\* observes the cancellation when the caller has signalled it.
InvokePredicate(n) ==
    /\ checks' = IF HasPredicate(variables) THEN checks + n ELSE checks
    /\ observed' = (observed \/ (HasPredicate(variables) /\ cancelled))

\* The cancellation signal thrown by a check of the soft-throttle branch is
\* thrown inside the try block: it passes through the catch block, which
\* rethrows it or, were it to classify it as retryable, runs its own check
\* (the predicate throws again, out of the catch block).
SoftSiteCancelled ==
    LET c == CatchBlock(CancelSignal, attempt) IN
    IF c.k = "rethrow"
    THEN InvokePredicate(1) /\ Settle(Thrown(c.error))
    ELSE InvokePredicate(2) /\ Settle(Thrown(CancelSignal))

\* The signal thrown by a check of the catch block leaves graphqlRequest.
CatchSiteCancelled ==
    InvokePredicate(1) /\ Settle(Thrown(CancelSignal))

\* Mutant of CheckThenSleep: the check before the sleep is missing.
SleepUnchecked(site, w) ==
    /\ pc' = "sleeping"
    /\ waitSite' = site
    /\ waitTime' = w
    /\ UNCHANGED <<result, checks, observed>>

\* if (variables?.checkCancelled) variables.checkCancelled();
\* await new Promise(r => setTimeout(r, waitTime));
CheckThenSleep(site, w) ==
    IF CheckThrows(variables, cancelled)
    THEN /\ IF site = "soft" THEN SoftSiteCancelled ELSE CatchSiteCancelled
         /\ UNCHANGED <<waitTime, waitSite>>
    ELSE /\ InvokePredicate(1)
         /\ pc' = "sleeping"
         /\ waitSite' = site
         /\ waitTime' = w
         /\ UNCHANGED result

\* the catch block, entered with `error`
Catch(error) ==
    LET c == CatchBlock(error, attempt) IN
    IF c.k = "rethrow"
    THEN /\ Settle(Thrown(c.error))
         /\ UNCHANGED <<waitTime, waitSite, checks, observed>>
    ELSE CheckThenSleep("catch", c.waitTime)

\* Mutant of LoopContinues: the loop has no bound.
LoopContinuesForever(a) == TRUE

\* Mutant of LoopContinues: the loop bound is off by one.
LoopContinuesOffByOne(a) == a <= MAX_ATTEMPTS + 1

\* for (...; attempt <= MAX_ATTEMPTS; ...)
LoopContinues(a) == a <= MAX_ATTEMPTS

(***************************************************************************)
(* Actions.                                                                *)
(***************************************************************************)
\* graphqlRequest(shop, token, query, variables) up to the first await.
Begin ==
    /\ pc = "idle"
    /\ \E token \in Tokens, vs \in VariableMaps, libraryRejects \in BOOLEAN :
        /\ variables' = vs
        /\ IF ~Truthy(token)
           THEN /\ Settle(Thrown(MissingTokenError))
                /\ UNCHANGED <<accessToken, attempt, requests, inflight, sent,
                               outcome, waitTime, waitSite>>
           ELSE /\ accessToken' = SanitizeToken(token)
                /\ IF accessToken' = <<>> /\ libraryRejects
                   THEN \* new shopify.api.clients.Graphql({ session }) throws
                        /\ Settle(Thrown(LibraryTokenError))
                        /\ UNCHANGED <<attempt, requests, inflight, sent,
                                       outcome, waitTime, waitSite>>
                   ELSE /\ attempt' = 1
                        /\ IssueRequest(vs)
    /\ startedCancelled' = cancelled
    /\ UNCHANGED <<lastRequestedCost, cancelled, checks, waits, observed>>
    /\ UNCHANGED <<pairVars, procVars>>

\* client.request resolves with response r: the try block.
Respond ==
    /\ pc = "awaiting"
    /\ \E r \in Responses :
        /\ outcome' = [kind |-> "response", response |-> r]
        /\ LET t == TryBlock(r, attempt, lastRequestedCost) IN
           CASE t.k = "return" ->
                    /\ Settle(Returned(t.value))
                    /\ UNCHANGED <<lastRequestedCost, waitTime, waitSite, checks,
                                   observed>>
             [] t.k = "throw" ->
                    /\ Catch(t.error)
                    /\ UNCHANGED lastRequestedCost
             [] t.k = "throttle" ->
                    /\ lastRequestedCost' = t.last
                    /\ CheckThenSleep("soft", t.waitTime)
    /\ inflight' = inflight - 1
    /\ UNCHANGED <<variables, accessToken, attempt, cancelled, requests, sent,
                   waits, startedCancelled>>
    /\ UNCHANGED <<pairVars, procVars>>

\* client.request rejects with error e: the catch block.
Reject ==
    /\ pc = "awaiting"
    /\ \E e \in TransportErrors :
        /\ outcome' = [kind |-> "error", error |-> e]
        /\ Catch(e)
    /\ inflight' = inflight - 1
    /\ UNCHANGED <<variables, accessToken, attempt, lastRequestedCost, cancelled,
                   requests, sent, waits, startedCancelled>>
    /\ UNCHANGED <<pairVars, procVars>>

\* The timer fires: check cancellation again, `continue`, and either issue
\* the next attempt or leave the loop and throw the exhaustion error.
TimerFires ==
    /\ pc = "sleeping"
    /\ waits' = waits + 1
    /\ IF CheckThrows(variables, cancelled)
       THEN /\ IF waitSite = "soft" THEN SoftSiteCancelled ELSE CatchSiteCancelled
            /\ UNCHANGED <<attempt, requests, inflight, sent, outcome,
                           waitTime, waitSite>>
       ELSE /\ InvokePredicate(1)
            /\ attempt' = attempt + 1
            /\ IF LoopContinues(attempt')
               THEN IssueRequest(variables)
               ELSE /\ Settle(Thrown(ExhaustedError))
                    /\ UNCHANGED <<requests, inflight, sent, outcome,
                                   waitTime, waitSite>>
    /\ UNCHANGED <<variables, accessToken, lastRequestedCost, cancelled,
                   startedCancelled>>
    /\ UNCHANGED <<pairVars, procVars>>

\* Environment: the caller's cancellation flag is raised.
Cancel ==
    /\ pc # "done"
    /\ ~cancelled
    /\ cancelled' = TRUE
    /\ UNCHANGED <<pc, variables, accessToken, attempt, lastRequestedCost,
                   outcome, waitTime, waitSite, result, requests, inflight,
                   sent, checks, waits, observed, startedCancelled>>
    /\ UNCHANGED <<pairVars, procVars>>

Next == Begin \/ Respond \/ Reject \/ TimerFires \/ Cancel

Spec == Init /\ [][Next]_vars

\* The assumptions of termination: a request in flight eventually resolves
\* or rejects, and a timer that was set eventually fires.
FairSpec ==
    /\ Spec
    /\ WF_vars(Respond \/ Reject)
    /\ WF_vars(TimerFires)

(***************************************************************************)
(* Two concurrent calls of graphqlRequest.  Each call runs the same loop   *)
(* as above, without a cancellation predicate; the calls interleave at     *)
(* their awaits.  `attempt` and `lastRequestedCost` live in the frame of   *)
(* the call; `solo` replays each call on its own transport outcomes.       *)
(***************************************************************************)
\* What the transport hands to the two calls.
PairCost(q) ==
    [t |-> "object", requestedQueryCost |-> q,
     throttleStatus |-> [t |-> "object", currentlyAvailable |-> 0,
                         restoreRate |-> 1]]

PairResponses ==
    { NestedResponse(Payload([t |-> "object", id |-> "D1"], Undefined, Undefined)),
      NestedResponse(Payload(Undefined, ThrottledOnly, PairCost(Num(2)))),
      NestedResponse(Payload(Undefined, ThrottledOnly, PairCost(Undefined))),
      NestedResponse(Payload(Undefined, ThrottledOnly, Undefined)),
      NestedResponse(Undefined) }

PairErrors ==
    { [message |-> <<"socket", "hang", "up">>, code |-> "ECONNRESET",
       response |-> NoResponse],
      [message |-> <<"Unauthorized">>, code |-> "none",
       response |-> [code |-> 401, retryAfter |-> Undefined]] }

\* Mutant of FrameOf: the two bindings are module-level, one cell for all
\* calls.
FrameShared(call) == 1

\* `let lastRequestedCost = 0` and `let attempt = 1` are declared inside the
\* function body: every call has bindings of its own.
FrameOf(call) == call

\* One loop iteration after `await client.request(...)` settled with the
\* outcome o, run on the loop index a and the remembered cost `last`.
Iteration(o, a, last) ==
    LET t == IF o.kind = "response" THEN TryBlock(o.response, a, last)
             ELSE [k |-> "throw", error |-> o.error]
        c == CatchBlock(t.error, a)
    IN CASE t.k = "return" ->
                [pc |-> "done", result |-> Returned(t.value),
                 waitTime |-> Num(0), waitSite |-> "none", last |-> last]
         [] t.k = "throttle" ->
                [pc |-> "sleeping", result |-> Pending,
                 waitTime |-> t.waitTime, waitSite |-> "soft", last |-> t.last]
         [] t.k = "throw" /\ c.k = "rethrow" ->
                [pc |-> "done", result |-> Thrown(c.error),
                 waitTime |-> Num(0), waitSite |-> "none", last |-> last]
         [] t.k = "throw" /\ c.k = "retry" ->
                [pc |-> "sleeping", result |-> Pending,
                 waitTime |-> c.waitTime, waitSite |-> "catch", last |-> last]

\* The call replayed alone: its state after the outcome o.
SoloIteration(s, o) ==
    LET i == Iteration(o, s.attempt, s.lastRequestedCost) IN
    [s EXCEPT !.pc = i.pc, !.result = i.result, !.waitTime = i.waitTime,
              !.waitSite = i.waitSite, !.lastRequestedCost = i.last]

\* The call replayed alone: its state after a timer fired.
SoloContinue(s) ==
    IF LoopContinues(s.attempt + 1)
    THEN [s EXCEPT !.attempt = s.attempt + 1, !.pc = "awaiting",
                   !.waitTime = Num(0), !.waitSite = "none",
                   !.requests = s.requests + 1]
    ELSE [s EXCEPT !.attempt = s.attempt + 1, !.pc = "done",
                   !.result = Thrown(ExhaustedError)]

\* The call starts: its bindings are initialized and its first request is
\* issued.
PairBegin(call) ==
    /\ calls[call].pc = "idle"
    /\ frames' = [frames EXCEPT ![FrameOf(call)] =
                      [attempt |-> 1, lastRequestedCost |-> 0]]
    /\ calls' = [calls EXCEPT ![call].pc = "awaiting", ![call].requests = 1]
    /\ solo' = [solo EXCEPT ![call].pc = "awaiting", ![call].requests = 1,
                            ![call].attempt = 1]
    /\ UNCHANGED <<callVars, procVars>>

\* The request of the call settles with the outcome o.
PairSettle(call, o) ==
    LET f == frames[FrameOf(call)]
        i == Iteration(o, f.attempt, f.lastRequestedCost)
    IN /\ frames' = [frames EXCEPT ![FrameOf(call)].lastRequestedCost = i.last]
       /\ calls' = [calls EXCEPT ![call].pc = i.pc, ![call].result = i.result,
                                 ![call].waitTime = i.waitTime,
                                 ![call].waitSite = i.waitSite]
       /\ solo' = [solo EXCEPT ![call] = SoloIteration(solo[call], o)]

\* client.request of the call resolves.
PairRespond(call) ==
    /\ calls[call].pc = "awaiting"
    /\ \E r \in PairResponses : PairSettle(call, [kind |-> "response", response |-> r])
    /\ UNCHANGED <<callVars, procVars>>

\* client.request of the call rejects.
PairReject(call) ==
    /\ calls[call].pc = "awaiting"
    /\ \E e \in PairErrors : PairSettle(call, [kind |-> "error", error |-> e])
    /\ UNCHANGED <<callVars, procVars>>

\* The timer of the call fires: `continue`, attempt++, loop test.
PairTimerFires(call) ==
    /\ calls[call].pc = "sleeping"
    /\ LET a == frames[FrameOf(call)].attempt + 1 IN
        /\ frames' = [frames EXCEPT ![FrameOf(call)].attempt = a]
        /\ IF LoopContinues(a)
           THEN calls' = [calls EXCEPT ![call].pc = "awaiting",
                                       ![call].waitTime = Num(0),
                                       ![call].waitSite = "none",
                                       ![call].requests = calls[call].requests + 1]
           ELSE calls' = [calls EXCEPT ![call].pc = "done",
                                       ![call].result = Thrown(ExhaustedError)]
    /\ solo' = [solo EXCEPT ![call] = SoloContinue(solo[call])]
    /\ UNCHANGED <<callVars, procVars>>

PairNext ==
    \/ \E call \in Calls : PairBegin(call)
    \/ \E call \in Calls : PairRespond(call)
    \/ \E call \in Calls : PairReject(call)
    \/ \E call \in Calls : PairTimerFires(call)

PairSpec == Init /\ [][PairNext]_vars

(***************************************************************************)
(* handleProcess (POST /api/dry-run, POST /api/execute).  Lists are kept   *)
(* as their lengths: the page of products still to iterate, the media of   *)
(* the current product.  What the remote API answers is chosen when the    *)
(* handler reads it.                                                       *)
(***************************************************************************)
\* process.env.MAX_PRODUCTS_PER_RUN, as configured.
ProductLimits == {1, 2}

\* process.env.MAX_MEDIA_DELETES_PER_RUN, as configured.
MediaDeleteLimits == {1, BATCH_SIZE + 1}

\* Number of media edges on one page (media(first: 50)).
MediaPageSizes == {0, 1, BATCH_SIZE}

\* req.body of the two routes.
TagValues == {Undefined, Str(<<>>), Str(<<"sale">>), Str(<<"other">>)}
ConfirmTexts == {Undefined, Str(<<"CONFIRM">>), Str(<<"confirm">>)}
Bodies == [tag : TagValues, confirmText : ConfirmTexts, confirmTag : TagValues]

\* Mutant of Validate: an execute run is checked like a dry run.
ValidateTagOnly(body, dryRun) ==
    IF ~Truthy(body.tag) THEN "Tag is required" ELSE ""

\* The validation of handleProcess: the error of the 400 answer, "" when
\* the request passes.
Validate(body, dryRun) ==
    IF ~Truthy(body.tag) THEN "Tag is required"
    ELSE IF ~dryRun /\ body.confirmText # Str(<<"CONFIRM">>)
    THEN "Confirmation text must be 'CONFIRM'"
    ELSE IF ~dryRun /\ body.confirmTag # body.tag
    THEN "Confirmation tag does not match"
    ELSE ""

\* Mutant of ShouldDelete: the dry-run flag is not consulted.
ShouldDeleteAnyRun(dryRun, mediaCount) == mediaCount > 0

\* if (!dryRun && medias.length > 0)
ShouldDelete(dryRun, mediaCount) == ~dryRun /\ mediaCount > 0

\* !dryRun && mediaDeletedCount >= MAX_MEDIA_DELETES_PER_RUN
DeleteLimitReached(p) == ~p.dryRun /\ p.mediaDeletedCount >= p.maxMediaDeletes

\* mediaIds.slice(i, i + BATCH_SIZE).length
BatchLength(mediaCount, i) ==
    IF mediaCount - i < BATCH_SIZE THEN mediaCount - i ELSE BATCH_SIZE

\* The head of the while loop, entered with the locals p: the next page of
\* products is requested, or the summary is sent.
WhileLoop(p) ==
    IF p.hasNextPage /\ p.productsProcessedCount < p.maxProducts
          /\ ~DeleteLimitReached(p)
    THEN /\ proc' = [p EXCEPT !.pc = "queryProducts"]
         /\ remote' = [remote EXCEPT !.queries = @ + 1]
         /\ UNCHANGED <<summary, reply>>
    ELSE /\ proc' = [p EXCEPT !.pc = "done"]
         /\ summary' = [summary EXCEPT !.productsProcessed = p.productsProcessedCount]
         /\ reply' = [status |-> 200, error |-> ""]
         /\ UNCHANGED remote

\* items.push(itemResult); productsProcessedCount++ and on to the next edge.
ProductDone(p) ==
    [p EXCEPT !.pc = "forLoop", !.pageLeft = @ - 1,
              !.productsProcessedCount = @ + 1, !.itemError = FALSE]

\* The server starts: the limits are read from the environment.
Start ==
    /\ proc.pc = "down"
    /\ \E mp \in ProductLimits, md \in MediaDeleteLimits :
          proc' = [proc EXCEPT !.pc = "idle", !.maxProducts = mp,
                               !.maxMediaDeletes = md]
    /\ UNCHANGED <<summary, reply, remote, callVars, pairVars>>

\* A request arrives on one of the two routes: validation, then the first
\* pass through the head of the while loop.
Receive ==
    /\ proc.pc = "idle"
    /\ \E dryRun \in BOOLEAN, body \in Bodies :
          LET p == [proc EXCEPT !.dryRun = dryRun, !.body = body,
                                !.hasNextPage = TRUE]
          IN IF Validate(body, dryRun) # ""
             THEN /\ proc' = [p EXCEPT !.pc = "done"]
                  /\ reply' = [status |-> 400, error |-> Validate(body, dryRun)]
                  /\ UNCHANGED <<summary, remote>>
             ELSE WhileLoop(p)
    /\ UNCHANGED <<callVars, pairVars>>

\* The products query resolves with a page of n products.
ProductsResolve ==
    /\ proc.pc = "queryProducts"
    /\ \E n \in 0..MaxPageProducts, more \in BOOLEAN :
          /\ more => proc.pages + 1 < MaxPages
          /\ proc' = [proc EXCEPT !.pc = "forLoop", !.pageLeft = n,
                                  !.pageHasNext = more, !.pages = @ + 1]
          /\ summary' = [summary EXCEPT !.productsFound = @ + n]
    /\ UNCHANGED <<reply, remote, callVars, pairVars>>

\* The products query rejects, or resolves with errors: the outer catch.
ProductsFail ==
    /\ proc.pc = "queryProducts"
    /\ proc' = [proc EXCEPT !.pc = "done"]
    /\ reply' = [status |-> 500, error |-> "query failed"]
    /\ UNCHANGED <<summary, remote, callVars, pairVars>>

\* The head of the for loop over the edges of the page, up to the first
\* await of getAllMediaForProduct; past the last edge, the page info is
\* taken over and the handler sleeps 200 ms.
ProductStep ==
    /\ proc.pc = "forLoop"
    /\ IF proc.pageLeft = 0
          \/ proc.productsProcessedCount >= proc.maxProducts
          \/ DeleteLimitReached(proc)
       THEN /\ proc' = [proc EXCEPT !.pc = "sleepPage",
                                    !.hasNextPage = proc.pageHasNext]
            /\ UNCHANGED remote
       ELSE \E m \in MediaPageSizes, more \in BOOLEAN :
               /\ more => MaxMediaPages > 0
               /\ proc' = [proc EXCEPT !.medias = m, !.hasNext = more,
                                       !.mediaPages = 0, !.i = 0,
                                       !.pc = IF more THEN "queryMedia" ELSE "fetched"]
               /\ remote' = [remote EXCEPT !.queries = IF more THEN @ + 1 ELSE @]
    /\ UNCHANGED <<summary, reply, callVars, pairVars>>

\* A media page query of getAllMediaForProduct resolves; sleep 200 ms.
MediaResolve ==
    /\ proc.pc = "queryMedia"
    /\ \E m \in MediaPageSizes, more \in BOOLEAN :
          /\ more => proc.mediaPages + 1 < MaxMediaPages
          /\ proc' = [proc EXCEPT !.pc = "sleepMedia", !.medias = @ + m,
                                  !.hasNext = more, !.mediaPages = @ + 1]
    /\ UNCHANGED <<summary, reply, remote, callVars, pairVars>>

\* A media page query rejects: the product is recorded as an error.
MediaFail ==
    /\ proc.pc = "queryMedia"
    /\ proc' = ProductDone(proc)
    /\ summary' = [summary EXCEPT !.errors = @ + 1]
    /\ UNCHANGED <<reply, remote, callVars, pairVars>>

\* The 200 ms sleep of getAllMediaForProduct ends: next media page, or
\* return.
MediaTimer ==
    /\ proc.pc = "sleepMedia"
    /\ IF proc.hasNext
       THEN /\ proc' = [proc EXCEPT !.pc = "queryMedia"]
            /\ remote' = [remote EXCEPT !.queries = @ + 1]
       ELSE /\ proc' = [proc EXCEPT !.pc = "fetched"]
            /\ UNCHANGED remote
    /\ UNCHANGED <<summary, reply, callVars, pairVars>>

\* getAllMediaForProduct returned: count the media, then start deleting
\* (sleep 300 ms before the first batch) or record the product.
MediaFetched ==
    /\ proc.pc = "fetched"
    /\ summary' = [summary EXCEPT !.mediaFound = @ + proc.medias]
    /\ proc' = IF ShouldDelete(proc.dryRun, proc.medias)
               THEN [proc EXCEPT !.pc = "sleepBatch", !.i = 0]
               ELSE ProductDone(proc)
    /\ UNCHANGED <<reply, remote, callVars, pairVars>>

\* The 300 ms sleep ends: the delete mutation of the batch is issued.
BatchTimer ==
    /\ proc.pc = "sleepBatch"
    /\ proc' = [proc EXCEPT !.pc = "mutating"]
    /\ remote' = [remote EXCEPT !.mutations = @ + 1]
    /\ UNCHANGED <<summary, reply, callVars, pairVars>>

\* After a batch: the next batch, or the end of the product.
BatchDone(p) ==
    /\ proc' = IF p.i + BATCH_SIZE < p.medias
               THEN [p EXCEPT !.pc = "sleepBatch", !.i = @ + BATCH_SIZE]
               ELSE ProductDone(p)
    /\ summary' = [summary EXCEPT
          !.mediaDeleted = @ + (p.mediaDeletedCount - proc.mediaDeletedCount),
          !.errors = IF ~(p.i + BATCH_SIZE < p.medias) /\ p.itemError
                     THEN @ + 1 ELSE @]

\* The delete mutation resolves, with or without user errors.
MutationResolve ==
    /\ proc.pc = "mutating"
    /\ \E userErrors \in BOOLEAN :
          IF userErrors
          THEN BatchDone([proc EXCEPT !.itemError = TRUE])
          ELSE BatchDone([proc EXCEPT !.mediaDeletedCount =
                                         @ + BatchLength(proc.medias, proc.i)])
    /\ UNCHANGED <<reply, remote, callVars, pairVars>>

\* The delete mutation rejects: the inner catch.
MutationFail ==
    /\ proc.pc = "mutating"
    /\ BatchDone([proc EXCEPT !.itemError = TRUE])
    /\ UNCHANGED <<reply, remote, callVars, pairVars>>

\* The 200 ms sleep at the end of a page ends: back to the while loop.
PageTimer ==
    /\ proc.pc = "sleepPage"
    /\ WhileLoop(proc)
    /\ UNCHANGED <<callVars, pairVars>>

ProcessNext ==
    \/ Start
    \/ Receive
    \/ ProductsResolve
    \/ ProductsFail
    \/ ProductStep
    \/ MediaResolve
    \/ MediaFail
    \/ MediaTimer
    \/ MediaFetched
    \/ BatchTimer
    \/ MutationResolve
    \/ MutationFail
    \/ PageTimer

ProcessSpec == Init /\ [][ProcessNext]_vars

(***************************************************************************)
(* Vocabulary of the properties: what the last transport outcome carried,  *)
(* in terms of the response as the remote API sent it.                     *)
(***************************************************************************)
LastResponse == outcome.response
LastError == outcome.error

\* The payload of a response, wherever the transport placed it.
CarriedPayload(r) ==
    IF r.body.t = "object" THEN r.body ELSE Payload(r.data, r.errors, r.cost)

\* The response has no body and no payload on its root, or an empty array.
CarriesNothing(r) ==
    \/ r.body.t = "array"
    \/ r.body.t \in {"undefined", "null"} /\ r.data = Undefined /\ r.errors = Undefined

CarriesThrottling(r) ==
    /\ CarriedPayload(r).errors.t = "array"
    /\ \E i \in 1..Len(CarriedPayload(r).errors.a) :
          \/ CarriedPayload(r).errors.a[i].code = "THROTTLED"
          \/ \E j \in 1..Len(CarriedPayload(r).errors.a[i].message) :
                CarriedPayload(r).errors.a[i].message[j] \in {"Throttled", "throttled", "THROTTLED"}

\* The last attempt ended in one of the transient classes: empty body,
\* missing data key, soft throttle, network throttle, recognized network code.
TransientOutcome ==
    \/ /\ outcome.kind = "response"
       /\ \/ CarriesNothing(LastResponse)
          \/ /\ ~CarriesNothing(LastResponse)
             /\ \/ CarriesThrottling(LastResponse)
                \/ /\ CarriedPayload(LastResponse).errors = Undefined
                   /\ CarriedPayload(LastResponse).data = Undefined
    \/ /\ outcome.kind = "error"
       /\ LastError.message # <<"IMPORT_CANCELLED">>
       /\ \/ LastError.response.code = 429
          \/ \E j \in 1..Len(LastError.message) :
                LastError.message[j] \in {"Throttled", "throttled", "THROTTLED"}
          \/ LastError.code \in {"ECONNRESET", "ETIMEDOUT", "EPIPE"}

Failed == pc = "done" /\ result.kind = "thrown"
(***************************************************************************)
(* Properties.                                                             *)
(***************************************************************************)
\* C1: every response in which `data` is present and not undefined (an
\* explicit null included) settles the call successfully with exactly that
\* data value, whatever else the response carries and on whichever attempt;
\* no further request follows it.
C1_DataResolves ==
    (outcome.kind = "response" /\ CarriedPayload(LastResponse).data # Undefined)
        => (pc = "done" /\ result = Returned(CarriedPayload(LastResponse).data))

\* C2: when every attempt of a call ended in a transient class, the failure
\* thrown to the caller is the exhaustion error naming the attempt budget,
\* not the last underlying transient or network error.
C2_ExhaustionErrorThrown ==
    (Failed /\ ~observed /\ TransientOutcome) => result.error = ExhaustedError

\* C3: a call never issues more than MAX_ATTEMPTS transport requests, and a
\* call that fails after nothing but transient attempts has issued exactly
\* MAX_ATTEMPTS of them.
C3_AttemptBudget ==
    /\ requests <= MAX_ATTEMPTS
    /\ (Failed /\ ~observed /\ TransientOutcome) => requests = MAX_ATTEMPTS

\* C3 witness: a call has failed on its tenth request, every attempt having
\* been transient.
C3_Witness ==
    Failed /\ ~observed /\ TransientOutcome /\ requests = MAX_ATTEMPTS /\ waits >= 9
\* The response carries an errors list none of whose entries signals
\* throttling.
FunctionalResponse(r) ==
    /\ ~CarriesNothing(r)
    /\ CarriedPayload(r).errors.t = "array"
    /\ ~CarriesThrottling(r)

\* C4: a response whose errors do not signal throttling makes the call throw
\* on that very attempt, without a wait and without another request, an
\* error whose message is the error messages joined in order with ' | '.
C4_FunctionalThrowsAtOnce ==
    (outcome.kind = "response" /\ FunctionalResponse(LastResponse))
        => /\ Failed
           /\ waitSite = "none"
           /\ result.error.message = JoinMessages(CarriedPayload(LastResponse).errors.a)

\* C5: once the cancellation predicate has thrown its signal, at either wait
\* site and before or after the wait, the call has rejected with that same
\* signal, no request is outstanding and none is issued afterwards.
C5_CancellationPropagates ==
    observed => /\ pc = "done"
                /\ result = Thrown(CancelSignal)
                /\ inflight = 0
                /\ requests = Len(sent)

\* C5 witness: the signal was observed by the check that follows the second
\* wait, a soft-throttle wait, and the call rejected with it.
C5_Witness ==
    /\ observed
    /\ result = Thrown(CancelSignal)
    /\ waitSite = "soft"
    /\ waits = 2
    /\ requests = 2

\* C6: the failures surfaced to the caller are functional errors, the
\* cancellation signal and the exhaustion error; the error of a transient
\* class (the empty-body or missing-data sentinel, a throttle error, a
\* recognized network-code error) is never what the caller receives.
C6_NoTransientSurfaced ==
    (Failed /\ TransientOutcome)
        => /\ outcome.kind = "response" => result.error \notin {EmptyBodyError, MissingDataError}
           /\ outcome.kind = "error" => result.error # LastError

\* The last response is a soft throttle whose cost metadata gives a positive
\* deficit and a positive restore rate.
CostOf(r) == CarriedPayload(r).cost
PositiveDeficit(r) ==
    /\ CarriesThrottling(r)
    /\ CostOf(r).t = "object"
    /\ CostOf(r).requestedQueryCost.t = "number"
    /\ CostOf(r).throttleStatus.t = "object"
    /\ CostOf(r).requestedQueryCost.n - CostOf(r).throttleStatus.currentlyAvailable > 0
    /\ CostOf(r).throttleStatus.restoreRate > 0

\* w = ceil(deficit / rate) * 1000 + 100, stated without a division: w - 100
\* is s whole seconds, s seconds restore at least the deficit and s - 1
\* seconds do not.
IsCostWait(w, deficit, rate) ==
    \E sec \in 1..deficit :
        /\ w = sec * 1000 + 100
        /\ sec * rate >= deficit
        /\ (sec - 1) * rate < deficit

\* C7: after a soft throttle with a positive deficit and restore rate the
\* call waits exactly ceil(deficit / restoreRate) * 1000 + 100 ms, whatever
\* the attempt index, and retries.
C7_CostWait ==
    (outcome.kind = "response" /\ PositiveDeficit(LastResponse) /\ ~observed)
        => /\ waitSite = "soft"
           /\ waitTime.t = "number"
           /\ IsCostWait(waitTime.n,
                         CostOf(LastResponse).requestedQueryCost.n
                            - CostOf(LastResponse).throttleStatus.currentlyAvailable,
                         CostOf(LastResponse).throttleStatus.restoreRate)
           /\ pc = "sleeping" \/ (pc = "done" /\ requests = MAX_ATTEMPTS)

\* C7 witness: on the third attempt, need 3 with 0 available at 2 per second:
\* the call sleeps 2100 ms.
C7_Witness ==
    /\ pc = "sleeping"
    /\ attempt = 3
    /\ outcome.kind = "response"
    /\ PositiveDeficit(LastResponse)
    /\ CostOf(LastResponse).requestedQueryCost.n = 3
    /\ CostOf(LastResponse).throttleStatus.currentlyAvailable = 0
    /\ CostOf(LastResponse).throttleStatus.restoreRate = 2
    /\ waitTime = Num(2100)

\* C8: at most one transport request is outstanding, every request is issued
\* with the transport's retries disabled, and a request after the first is
\* issued only when the previous one has settled, the wait that followed it
\* has elapsed and the check after the wait has not signalled cancellation.
C8_OneRequestAtATime ==
    /\ [](inflight <= 1 /\ \A i \in 1..Len(sent) : sent[i].retries = 0)
    /\ [][requests' # requests =>
            /\ requests' = requests + 1
            /\ inflight = 0
            /\ requests > 0 =>
                /\ pc = "sleeping"
                /\ waits' = requests
                /\ ~(HasPredicate(variables) /\ cancelled)
                /\ checks' = IF HasPredicate(variables) THEN 2 * requests ELSE 0]_vars

\* C8 witness: the fourth request is in flight, three waits having elapsed
\* and six cancellation checks having passed.
C8_Witness ==
    pc = "awaiting" /\ requests = 4 /\ waits = 3 /\ checks = 6 /\ inflight = 1

\* C9: the variable mapping handed to the transport never contains the
\* checkCancelled entry and carries every other variable unchanged.
C9_PredicateStripped ==
    \A i \in 1..Len(sent) :
        /\ "checkCancelled" \notin DOMAIN sent[i].variables
        /\ \A k \in DOMAIN variables \ {"checkCancelled"} :
              k \in DOMAIN sent[i].variables /\ sent[i].variables[k] = variables[k]

\* C10: no request is ever issued with an empty credential: a call whose
\* token is absent, empty, or empty once sanitized is rejected with
\* 'graphqlRequest: Missing token' before any request.
C10_EmptyTokenRejected ==
    (pc # "idle" /\ accessToken = <<>>)
        => (pc = "done" /\ result = Thrown(MissingTokenError) /\ requests = 0)
\* C11: a supplied cancellation predicate is invoked once before and once
\* after every sleep and nowhere else: while it has not signalled, the
\* invocations number twice the elapsed waits, plus the one that precedes
\* the sleep in progress; without a predicate there is no invocation.
C11_ChecksAroundEverySleep ==
    /\ ~HasPredicate(variables) => checks = 0
    /\ (HasPredicate(variables) /\ ~observed)
          => checks = 2 * waits + (IF pc = "sleeping" THEN 1 ELSE 0)

\* C11 witness: a call with a predicate resolved after three waits and six
\* invocations.
C11_Witness ==
    /\ HasPredicate(variables)
    /\ pc = "done"
    /\ result.kind = "returned"
    /\ waits = 3
    /\ checks = 6

\* The last response was classified as an empty body: no body and nothing
\* usable on the root, or an empty array.
EmptyBodyResponse(r) ==
    \/ r.body.t = "array"
    \/ /\ r.body.t \in {"undefined", "null"}
       /\ r.data.t \in {"undefined", "null"}
       /\ r.errors.t = "undefined"

\* C12 as stated: an empty body on attempt n < 10 is retried after a backoff
\* of exactly 1000 * 2^(n-1) ms.
C12_EmptyBodyBackoffFromOne ==
    (outcome.kind = "response" /\ EmptyBodyResponse(LastResponse)
        /\ attempt < MAX_ATTEMPTS /\ ~observed)
        => /\ pc = "sleeping"
           /\ waitTime = Num(1000 * 2^(attempt - 1))

\* C12 amended: an empty body on attempt n < 10 is classified transient and,
\* unless the cancellation check stops the call, retried after a backoff of
\* exactly 1000 * 2^n ms.
C12_EmptyBodyBackoff ==
    (outcome.kind = "response" /\ EmptyBodyResponse(LastResponse)
        /\ attempt < MAX_ATTEMPTS /\ ~observed)
        => /\ pc = "sleeping"
           /\ waitSite = "catch"
           /\ waitTime = Num(1000 * 2^attempt)

\* C12 witness: an empty array on attempt 3 is followed by a sleep of 8000 ms.
C12_Witness ==
    /\ outcome.kind = "response"
    /\ LastResponse.body = Arr(<<>>)
    /\ attempt = 3
    /\ pc = "sleeping"
    /\ waitTime = Num(8000)

\* The last transport error carries a recognized network code and is not a
\* throttle.
NetworkCodeError(e) ==
    /\ e.code \in {"ECONNRESET", "ETIMEDOUT", "EPIPE"}
    /\ e.response.code # 429
    /\ \A j \in 1..Len(e.message) :
          e.message[j] \notin {"Throttled", "throttled", "THROTTLED"}

\* C13: a transport error with code ECONNRESET, ETIMEDOUT or EPIPE that is
\* not a throttle is retried after exactly 1000 * 2^n ms on attempt n < 10,
\* and on attempt 10 it is thrown instead.
C13_NetworkCodeBackoff ==
    (outcome.kind = "error" /\ NetworkCodeError(LastError) /\ ~observed)
        => IF attempt < MAX_ATTEMPTS
           THEN pc = "sleeping" /\ waitTime = Num(1000 * 2^attempt)
           ELSE pc = "done" /\ result = Thrown(LastError) /\ waits = MAX_ATTEMPTS - 1

\* C13 witness: EPIPE on attempt 3 is followed by a sleep of 8000 ms.
C13_Witness ==
    /\ outcome.kind = "error"
    /\ LastError.code = "EPIPE"
    /\ attempt = 3
    /\ pc = "sleeping"
    /\ waitTime = Num(8000)

\* The last transport error is a network throttle: HTTP 429, or a message
\* containing 'throttled' in any letter case.
NetworkThrottleError(e) ==
    /\ e.message # <<"IMPORT_CANCELLED">>
    /\ \/ e.response.code = 429
       \/ \E j \in 1..Len(e.message) :
             e.message[j] \in {"Throttled", "throttled", "THROTTLED"}

\* C14: a network throttle on attempt n < 10 is retried after a wait of at
\* least 2000 ms, whatever the Retry-After header holds: without the header
\* the exponential backoff, with it Retry-After * 1000 + 500 ms, raised to
\* 2000 ms when smaller.
C14_ThrottleWaitFloor ==
    (outcome.kind = "error" /\ NetworkThrottleError(LastError)
        /\ attempt < MAX_ATTEMPTS /\ ~observed)
        => /\ pc = "sleeping"
           /\ waitTime.t = "number"
           /\ waitTime.n >= 2000
           /\ LastError.response.retryAfter = Undefined
                 => waitTime.n = 1000 * 2^attempt
           /\ LastError.response.retryAfter = Str(<<"3">>)
                 => waitTime.n = 3 * 1000 + 500
\* C16: a response whose errors include at least one throttling error takes
\* the soft-throttle path, whatever the other errors are: the call sleeps at
\* the soft-throttle site (or, after the last attempt's sleep, throws the
\* exhaustion error) and no functional error is thrown.
C16_AnyThrottleIsSoft ==
    (outcome.kind = "response" /\ CarriesThrottling(LastResponse) /\ ~observed)
        => /\ waitSite = "soft"
           /\ pc = "sleeping" \/ (pc = "done" /\ result = Thrown(ExhaustedError))

\* C16 witness: a functional error followed by an error with code THROTTLED
\* puts the call to sleep at the soft-throttle site.
C16_Witness ==
    /\ outcome.kind = "response"
    /\ CarriedPayload(LastResponse).errors =
          Arr(<<[message |-> <<"Access", "denied">>, code |-> "ACCESS_DENIED"],
                [message |-> <<"Rate", "limit">>, code |-> "THROTTLED"]>>)
    /\ pc = "sleeping"
    /\ waitSite = "soft"

\* C17: a response carrying a payload on its root, with no body, is resolved
\* exactly as the response carrying that payload under `body`: the same
\* return value, the same thrown error, the same wait; a root-level
\* data: null without errors is returned as a successful null.
C17_RootAsNested ==
    [][(pc = "awaiting" /\ outcome'.kind = "response"
            /\ outcome'.response.body = Undefined
            /\ (outcome'.response.data # Undefined \/ outcome'.response.errors # Undefined)
            /\ ~observed')
        => LET nested == NestedResponse(CarriedPayload(outcome'.response))
               t == TryBlock(nested, attempt, lastRequestedCost)
           IN /\ t.k = "return" => (pc' = "done" /\ result' = Returned(t.value))
              /\ t.k = "throttle" => (pc' = "sleeping" /\ waitTime' = t.waitTime)
              /\ t.k = "throw" =>
                    \/ pc' = "done" /\ result' = Thrown(t.error)
                    \/ pc' = "sleeping" /\ waitSite' = "catch"]_vars

\* The last response is a soft throttle whose cost metadata has a throttle
\* status.
ThrottledWithStatus(r) ==
    /\ CarriesThrottling(r)
    /\ CostOf(r).t = "object"
    /\ CostOf(r).throttleStatus.t = "object"

\* The wait of a soft throttle computed from the cost `need`.
WaitFromCost(w, need, r) ==
    LET deficit == need - CostOf(r).throttleStatus.currentlyAvailable
        rate == CostOf(r).throttleStatus.restoreRate
    IN (deficit > 0 /\ rate > 0) => (w.t = "number" /\ IsCostWait(w.n, deficit, rate))

\* C18 as stated: on a soft throttle the cost needed is requestedQueryCost
\* when present, otherwise the remembered cost, otherwise 50; it is
\* remembered and the wait is computed from it.
C18_CostNeededWhenPresent ==
    [][(pc = "awaiting" /\ outcome'.kind = "response"
            /\ ThrottledWithStatus(outcome'.response))
        => LET q == CostOf(outcome'.response).requestedQueryCost
               need == IF q.t = "number" THEN q.n
                       ELSE IF lastRequestedCost # 0 THEN lastRequestedCost
                       ELSE 50
           IN /\ lastRequestedCost' = need
              /\ ~observed' => WaitFromCost(waitTime', need, outcome'.response)]_vars

\* C18 amended: the cost needed is requestedQueryCost when present and
\* non-zero, otherwise the remembered cost, otherwise 50; it is remembered
\* and the wait is computed from it.
C18_CostNeededRemembered ==
    [][(pc = "awaiting" /\ outcome'.kind = "response"
            /\ ThrottledWithStatus(outcome'.response))
        => LET q == CostOf(outcome'.response).requestedQueryCost
               need == IF q.t = "number" /\ q.n # 0 THEN q.n
                       ELSE IF lastRequestedCost # 0 THEN lastRequestedCost
                       ELSE 50
           IN /\ lastRequestedCost' = need
              /\ ~observed' => WaitFromCost(waitTime', need, outcome'.response)]_vars

\* C18 witness: a cost of 3 was remembered, the throttle of the third attempt
\* reports no requested cost, 0 available at 2 per second, and the call
\* sleeps 2100 ms.
C18_Witness ==
    /\ pc = "sleeping"
    /\ attempt = 3
    /\ lastRequestedCost = 3
    /\ outcome.kind = "response"
    /\ ThrottledWithStatus(LastResponse)
    /\ CostOf(LastResponse).requestedQueryCost = Undefined
    /\ CostOf(LastResponse).throttleStatus.currentlyAvailable = 0
    /\ CostOf(LastResponse).throttleStatus.restoreRate = 2
    /\ waitTime = Num(2100)

\* The cost formula does not apply to the last soft throttle: no cost
\* metadata, no throttle status, no deficit or no restore rate.
CostFormulaInapplicable(r) ==
    \/ ~ThrottledWithStatus(r)
    \/ lastRequestedCost - CostOf(r).throttleStatus.currentlyAvailable <= 0
    \/ CostOf(r).throttleStatus.restoreRate <= 0

\* C19: when the cost formula does not apply, the wait of a soft throttle on
\* attempt n is exactly 1000 * 2^(n-1) ms.
C19_FallbackWait ==
    (outcome.kind = "response" /\ CarriesThrottling(LastResponse) /\ ~observed
        /\ CostFormulaInapplicable(LastResponse))
        => /\ waitSite = "soft"
           /\ waitTime = Num(1000 * 2^((IF pc = "done" THEN attempt - 1 ELSE attempt) - 1))

\* C19 witness: on the third attempt the requested cost 1 is below the 3
\* available, and the call sleeps 4000 ms.
C19_Witness ==
    /\ pc = "sleeping"
    /\ attempt = 3
    /\ outcome.kind = "response"
    /\ ThrottledWithStatus(LastResponse)
    /\ CostOf(LastResponse).requestedQueryCost = Num(1)
    /\ CostOf(LastResponse).throttleStatus.currentlyAvailable = 3
    /\ CostOf(LastResponse).throttleStatus.restoreRate = 2
    /\ waitTime = Num(4000)

\* The response has a non-empty body with neither `data` nor `errors`.
MissingKeyResponse(r) ==
    /\ r.body.t = "object"
    /\ r.body.data = Undefined
    /\ r.body.errors = Undefined

\* C20: a non-empty body with neither `data` nor `errors` on attempt n < 10
\* is transient: the call neither returns nor fails, it sleeps, and when the
\* sleep ends without cancellation it issues another request.
C20_MissingDataRetried ==
    /\ []((outcome.kind = "response" /\ MissingKeyResponse(LastResponse)
              /\ attempt < MAX_ATTEMPTS /\ ~observed)
            => (pc = "sleeping" /\ waitSite = "catch" /\ result = Pending))
    /\ [][(pc = "sleeping" /\ outcome.kind = "response"
              /\ MissingKeyResponse(LastResponse) /\ pc' # pc /\ ~observed')
            => (pc' = "awaiting" /\ requests' = requests + 1
                  /\ attempt' = attempt + 1)]_vars

\* C20 witness: the fourth attempt returned a body without a data key and
\* the call sleeps 16000 ms before its fifth request.
C20_Witness ==
    /\ pc = "sleeping"
    /\ attempt = 4
    /\ outcome.kind = "response"
    /\ MissingKeyResponse(LastResponse)
    /\ waitTime = Num(16000)
\* What a call of the pair does and holds: its position, wait, result and
\* requests, and the loop index and remembered cost it reads.
CallView(call) ==
    [pc |-> calls[call].pc, waitTime |-> calls[call].waitTime,
     waitSite |-> calls[call].waitSite, result |-> calls[call].result,
     requests |-> calls[call].requests,
     attempt |-> frames[FrameOf(call)].attempt,
     lastRequestedCost |-> frames[FrameOf(call)].lastRequestedCost]

\* C15: under every interleaving of two calls, the requests, waits, result,
\* loop index and remembered cost of each started call are those of the
\* same call run alone on its own transport outcomes.
C15_CallsIndependent ==
    \A call \in Calls : calls[call].pc # "idle" => CallView(call) = solo[call]

\* C15 witness: call 1 has remembered the cost 2 and sleeps on its second
\* attempt while call 2, throttled without a requested cost on its first
\* attempt, waits for the default cost of 50.
C15_Witness ==
    /\ calls[1].pc = "sleeping"
    /\ frames[FrameOf(1)] = [attempt |-> 2, lastRequestedCost |-> 2]
    /\ calls[2].pc = "sleeping"
    /\ calls[2].waitSite = "soft"
    /\ calls[2].waitTime = Num(50100)
    /\ frames[FrameOf(2)] = [attempt |-> 1, lastRequestedCost |-> 50]
\* The transport exception is the cancellation signal, or belongs to no
\* retryable class: not a sentinel, not HTTP 429, no "throttled" in its
\* message, none of the three recognized network codes.
Unretryable(e) ==
    \/ e.message = <<"IMPORT_CANCELLED">>
    \/ /\ e.message \notin {<<"TRANSIENT_EMPTY_BODY">>, <<"TRANSIENT_MISSING_DATA">>}
       /\ e.response.code # 429
       /\ ~Includes(ToLowerCase(e.message), "throttled")
       /\ e.code \notin {"ECONNRESET", "ETIMEDOUT", "EPIPE"}

\* C21: a transport exception that is the cancellation signal or matches no
\* retryable class is rethrown unchanged by the step that receives it: no
\* wait, no invocation of the cancellation predicate, no further request;
\* and the call stays settled with it.
C21_UnretryableRethrown ==
    /\ [][(pc = "awaiting" /\ outcome'.kind = "error" /\ Unretryable(outcome'.error))
            => /\ pc' = "done"
               /\ result' = Thrown(outcome'.error)
               /\ checks' = checks
               /\ waits' = waits
               /\ requests' = requests]_vars
    /\ []((outcome.kind = "error" /\ Unretryable(LastError))
            => (pc = "done" /\ result = Thrown(LastError) /\ waitSite = "none"))

\* C21 witness: the third request of a call with a cancellation predicate
\* was rejected with an unrecognized network code and the call rethrew it.
C21_Witness ==
    /\ pc = "done"
    /\ attempt = 3
    /\ HasPredicate(variables)
    /\ outcome.kind = "error"
    /\ LastError.code = "ENOTFOUND"
    /\ result = Thrown(LastError)
    /\ checks = 4
\* The caller supplied a cancellation predicate.
PredicateSupplied == "checkCancelled" \in DOMAIN variables

\* C22 as stated: when cancellation has become true while the call sleeps,
\* the call unwinds with the cancellation signal without the timer having
\* to fire.
C22_SleepInterrupted ==
    [][(pc = "sleeping" /\ cancelled /\ PredicateSupplied /\ pc' # pc)
        => (pc' = "done" /\ result' = Thrown(CancelSignal) /\ waits' = waits)]_vars

\* C22 amended: a sleeping call resumes on timer expiry only; when
\* cancellation has become true while it sleeps, the step that follows the
\* timer's firing unwinds the call with the cancellation signal and issues
\* no request.
C22_CancelSeenAtExpiry ==
    [][(pc = "sleeping" /\ pc' # pc)
        => /\ waits' = waits + 1
           /\ (cancelled /\ PredicateSupplied)
                => /\ pc' = "done"
                   /\ result' = Thrown(CancelSignal)
                   /\ requests' = requests
                   /\ inflight' = 0]_vars

\* C22 witness: the check before the first sleep passed, the caller
\* cancelled during the sleep, and the check after the timer fired threw.
C22_Witness ==
    /\ pc = "done"
    /\ PredicateSupplied
    /\ cancelled
    /\ result = Thrown(CancelSignal)
    /\ requests = 1
    /\ waits = 1
    /\ checks = 2
\* C23 as stated: a call started with the predicate already signalling
\* cancellation never has a completed wait followed by a second request,
\* never resolves successfully, and once settled has thrown the
\* cancellation signal.
C23_AlreadyCancelledUnwinds ==
    (startedCancelled /\ PredicateSupplied)
        => /\ ~(waits >= 1 /\ requests >= 2)
           /\ result.kind # "returned"
           /\ pc = "done" => result = Thrown(CancelSignal)

\* C23 amended: a call started with the predicate already signalling
\* cancellation issues at most one request and never sleeps; it settles
\* with the outcome of that first attempt when the attempt returns or
\* fails terminally, and with the cancellation signal, thrown by the check
\* that precedes the first wait, when the attempt is retryable.
C23_AlreadyCancelledNeverSleeps ==
    (startedCancelled /\ PredicateSupplied)
        => /\ requests <= 1
           /\ waits = 0
           /\ pc # "sleeping"
           /\ checks <= 1
           /\ (pc = "done" /\ checks = 1) => result = Thrown(CancelSignal)
           /\ (pc = "done" /\ checks = 0 /\ outcome.kind = "response")
                 => \/ result.kind = "returned"
                    \/ /\ result.kind = "thrown"
                       /\ CarriedPayload(LastResponse).errors.t = "array"
           /\ (pc = "done" /\ checks = 0 /\ outcome.kind = "error")
                 => result = Thrown(LastError)

\* C23 witness: the caller had cancelled before the call started, the first
\* response was a soft throttle, and the check before the first sleep threw
\* the signal.
C23_Witness ==
    /\ startedCancelled
    /\ PredicateSupplied
    /\ outcome.kind = "response"
    /\ CarriesThrottling(LastResponse)
    /\ pc = "done"
    /\ result = Thrown(CancelSignal)
    /\ requests = 1
    /\ checks = 1
    /\ waits = 0
\* C24: the call never sleeps after its final attempt: when attempt
\* MAX_ATTEMPTS has failed, in any way, the call is not put to sleep and the
\* cancellation predicate is not consulted any more.
C24_NoSleepAfterFinalAttempt ==
    /\ [](~(pc = "sleeping" /\ attempt = MAX_ATTEMPTS))
    /\ [][(pc = "awaiting" /\ attempt = MAX_ATTEMPTS) => checks' = checks]_vars
\* C25: on every attempt before the last, a response is classified by one
\* fixed precedence: nothing carried (retry from the catch site), else any
\* throttling error (retry from the soft-throttle site), else any errors
\* value, an empty list included (throw the joined message), else data
\* present (return it), else missing data (retry from the catch site).
C25_FixedPrecedence ==
    [][(pc = "awaiting" /\ outcome'.kind = "response" /\ attempt < MAX_ATTEMPTS
            /\ ~observed')
        => LET r == outcome'.response
               p == CarriedPayload(r)
           IN IF CarriesNothing(r)
              THEN pc' = "sleeping" /\ waitSite' = "catch"
              ELSE IF CarriesThrottling(r)
              THEN pc' = "sleeping" /\ waitSite' = "soft"
              ELSE IF p.errors # Undefined
              THEN /\ pc' = "done"
                   /\ result'.kind = "thrown"
                   /\ result'.error.message = JoinMessages(p.errors.a)
              ELSE IF p.data # Undefined
              THEN pc' = "done" /\ result' = Returned(p.data)
              ELSE pc' = "sleeping" /\ waitSite' = "catch"]_vars
\* C26: a non-throttling error returned by the remote API is thrown by the
\* step that receives it, whatever its message text: the call is not put to
\* sleep, even when the joined message equals an internal sentinel, and what
\* it throws is the cancellation signal only when the predicate signalled.
C26_MessageTextIgnored ==
    [][(pc = "awaiting" /\ outcome'.kind = "response"
            /\ FunctionalResponse(outcome'.response))
        => /\ pc' = "done"
           /\ result'.kind = "thrown"
           /\ checks' = checks
           /\ result' = Thrown(CancelSignal) => observed']_vars
\* C27: a call that has issued its first request eventually settles, and it
\* never issues more than 10 requests nor completes more than 10 waits.
C27_Terminates ==
    /\ [](requests <= MAX_ATTEMPTS /\ waits <= MAX_ATTEMPTS)
    /\ (pc = "awaiting") ~> (pc = "done")

\* C27 witness: a call settled after ten requests and ten waits.
C27_Witness ==
    /\ pc = "done"
    /\ requests = MAX_ATTEMPTS
    /\ waits = MAX_ATTEMPTS
\* C28: during a dry run no delete mutation is issued and the summary
\* reports no deleted media.
C28_DryRunNeverDeletes ==
    proc.dryRun => (remote.mutations = 0 /\ summary.mediaDeleted = 0)

\* C28 witness: a dry run answered 200 after finding media on two products.
C28_Witness ==
    /\ proc.dryRun
    /\ proc.pc = "done"
    /\ reply.status = 200
    /\ summary.productsProcessed = 2
    /\ summary.mediaFound = BATCH_SIZE + 1
    /\ remote.mutations = 0

\* The request is confirmed: a non-empty tag, the text CONFIRM, the tag
\* repeated.
Confirmed(body) ==
    /\ body.tag.t = "string"
    /\ body.tag.s # <<>>
    /\ body.confirmText = Str(<<"CONFIRM">>)
    /\ body.confirmTag = body.tag

\* C29: an execute run whose request is not confirmed is answered 400 and
\* issues no request to the remote API, query or mutation.
C29_ExecuteGated ==
    (proc.pc \notin {"down", "idle"} /\ ~proc.dryRun /\ ~Confirmed(proc.body))
        => /\ reply.status = 400
           /\ remote.queries = 0
           /\ remote.mutations = 0

\* C29 witness: an execute request with the right text whose confirmation
\* tag differs from its tag was answered 400.
C29_Witness ==
    /\ proc.pc = "done"
    /\ ~proc.dryRun
    /\ proc.body.tag = Str(<<"sale">>)
    /\ proc.body.confirmText = Str(<<"CONFIRM">>)
    /\ proc.body.confirmTag = Str(<<"other">>)
    /\ reply.status = 400
    /\ remote.queries = 0

\* C30: in an execute run the number of media deleted never exceeds the
\* configured MAX_MEDIA_DELETES_PER_RUN.
C30_DeleteLimitRespected ==
    ~proc.dryRun
        => /\ proc.mediaDeletedCount <= proc.maxMediaDeletes
           /\ summary.mediaDeleted <= proc.maxMediaDeletes
====
